---- MODULE Spec2Model ----
(***************************************************************************)
(* In-memory todo registry: the Task entity (src/src/models/task.py) and   *)
(* the TodoService that owns the task list and the id counter              *)
(* (src/src/services/todo_service.py).                                     *)
(*                                                                         *)
(* Python values are tagged records, so that None, booleans and strings    *)
(* can be told apart the way isinstance and truthiness tell them apart.    *)
(* A string is the sequence of its runs of equal characters (c repeated n  *)
(* times, n >= 1, neighbouring runs of different characters), so that a    *)
(* string of 1000 characters is one run and its length is still 1000.      *)
(***************************************************************************)
EXTENDS Integers, Sequences, FiniteSets, TLC

VARIABLES tasks, next_id, last, assigned, adds, live, ret, retAlias, held,
          cli, obj, data, tcall

\* The service with its caller, and a Task handled on its own.
svars == <<tasks, next_id, last, assigned, adds, live, ret, retAlias, held, cli>>
tvars == <<obj, data, tcall>>
vars == <<svars, tvars>>

(***************************************************************************)
(* Bounds of the model and constants of the program.                       *)
(***************************************************************************)
\* Spec: at most this many successful adds (rich string inputs).
MaxTasks == 2
\* SpecIds: at most this many successful adds (thin string inputs).
MaxIdTasks == 3
\* SpecList: at most this many successful adds, and the longest list a
\* caller grows by appending to what get_all_tasks returned.
MaxListTasks == 2
MaxRetLen == 3
\* SpecDirect: at most this many successful adds.
MaxDirectTasks == 2
\* SpecCli and SpecCliUpdate: at most this many tasks added through the menu.
MaxCliTasks == 2
\* len(title) > 200 and len(description) > 1000 are rejected.
MaxTitleLen == 200
MaxDescLen == 1000

(***************************************************************************)
(* Python values.                                                          *)
(***************************************************************************)
PyNone == [kind |-> "none", b |-> FALSE, s |-> <<>>, n |-> 0]
PyBool(x) == [kind |-> "bool", b |-> x, s |-> <<>>, n |-> 0]
PyStr(x) == [kind |-> "str", b |-> FALSE, s |-> x, n |-> 0]
PyInt(x) == [kind |-> "int", b |-> FALSE, s |-> <<>>, n |-> x]
\* An argument that is not passed, so that the parameter's default applies.
Absent == [kind |-> "absent", b |-> FALSE, s |-> <<>>, n |-> 0]
Default(v, d) == IF v = Absent THEN d ELSE v

\* len(s) of a string s.
RECURSIVE StrLen(_)
StrLen(s) == IF s = <<>> THEN 0 ELSE Head(s).n + StrLen(Tail(s))

\* bool(v): None, False, "" and 0 are falsy.
Truthy(v) ==
  CASE v.kind = "none" -> FALSE
    [] v.kind = "bool" -> v.b
    [] v.kind = "str" -> StrLen(v.s) > 0
    [] v.kind = "int" -> v.n # 0
    [] OTHER -> FALSE

\* isinstance(v, str), isinstance(v, bool), isinstance(v, int): bool is a
\* subclass of int.
IsStr(v) == v.kind = "str"
IsBool(v) == v.kind = "bool"
IsInt(v) == v.kind \in {"int", "bool"}

\* The integer an int or a bool compares as.
IntOf(v) == IF v.kind = "bool" THEN (IF v.b THEN 1 ELSE 0) ELSE v.n

Whitespace == {" ", "\t", "\n"}

\* The character c repeated k times.
Rep(c, k) == IF k = 0 THEN <<>> ELSE <<[c |-> c, n |-> k]>>

RECURSIVE FirstNonWs(_, _)
FirstNonWs(s, i) ==
  IF i > Len(s) THEN 0
  ELSE IF s[i].c \notin Whitespace THEN i ELSE FirstNonWs(s, i + 1)

RECURSIVE LastNonWs(_, _)
LastNonWs(s, i) ==
  IF i < 1 THEN 0
  ELSE IF s[i].c \notin Whitespace THEN i ELSE LastNonWs(s, i - 1)

\* str.strip(): the string without its leading and trailing whitespace.
Strip(s) ==
  LET f == FirstNonWs(s, 1) IN
    IF f = 0 THEN <<>> ELSE SubSeq(s, f, LastNonWs(s, Len(s)))

(***************************************************************************)
(* Task (src/src/models/task.py).  Each validator is TRUE when the code's  *)
(* validator returns and FALSE when it raises ValueError.                  *)
(***************************************************************************)
\* Variant of the id validation: 0 is accepted.
ValidateTaskId_AcceptsZero(task_id) == IsInt(task_id) /\ IntOf(task_id) >= 0

ValidateTaskId(task_id) == IsInt(task_id) /\ IntOf(task_id) > 0

\* Variant of the title validation: a title of exactly 200 characters is rejected.
ValidateTitle_OffByOne(title) ==
  /\ Truthy(title) /\ IsStr(title)
  /\ Strip(title.s) # <<>>
  /\ ~(StrLen(title.s) >= MaxTitleLen)

\* Variant of the title validation: the limit is applied to the trimmed title.
ValidateTitle_TrimmedLength(title) ==
  /\ Truthy(title) /\ IsStr(title)
  /\ Strip(title.s) # <<>>
  /\ ~(StrLen(Strip(title.s)) > MaxTitleLen)

ValidateTitle(title) ==
  /\ Truthy(title) /\ IsStr(title)
  /\ Strip(title.s) # <<>>
  /\ ~(StrLen(title.s) > MaxTitleLen)

ValidateDescription(description) ==
  /\ IsStr(description)
  /\ ~(StrLen(description.s) > MaxDescLen)

ValidateCompleted(completed) == IsBool(completed)

\* Task.__init__: all four validations, then the four assignments.
TaskInit(task_id, title, description, completed) ==
  IF /\ ValidateTaskId(task_id)
     /\ ValidateTitle(title)
     /\ ValidateDescription(description)
     /\ ValidateCompleted(completed)
  THEN [exc |-> "none",
        task |-> [id |-> task_id, title |-> title,
                  description |-> description, completed |-> completed]]
  ELSE [exc |-> "ValueError", task |-> PyNone]

\* Task(task_id, title, description="", completed=False).
TaskNew(task_id, title, description, completed) ==
  TaskInit(task_id, title, Default(description, PyStr(<<>>)),
           Default(completed, PyBool(FALSE)))

\* The property setters: validate, then assign.
\* Variant of the title setter: assigns, then validates.
SetTitle_AssignsFirst(task, value) ==
  IF ValidateTitle(value)
  THEN [exc |-> "none", task |-> [task EXCEPT !.title = value]]
  ELSE [exc |-> "ValueError", task |-> [task EXCEPT !.title = value]]

SetTitle(task, value) ==
  IF ValidateTitle(value)
  THEN [exc |-> "none", task |-> [task EXCEPT !.title = value]]
  ELSE [exc |-> "ValueError", task |-> task]

\* Variant of the description setter: assigns without validating.
SetDescription_Unchecked(task, value) ==
  [exc |-> "none", task |-> [task EXCEPT !.description = value]]

SetDescription(task, value) ==
  IF ValidateDescription(value)
  THEN [exc |-> "none", task |-> [task EXCEPT !.description = value]]
  ELSE [exc |-> "ValueError", task |-> task]

SetCompleted(task, value) ==
  IF ValidateCompleted(value)
  THEN [exc |-> "none", task |-> [task EXCEPT !.completed = value]]
  ELSE [exc |-> "ValueError", task |-> task]

\* A dict is the sequence of its <<key, value>> items, in insertion order.
DictHas(d, k) == \E i \in 1..Len(d) : d[i][1] = k
DictGet(d, k) == d[CHOOSE i \in 1..Len(d) : d[i][1] = k][2]
DictKeys(d) == {d[i][1] : i \in 1..Len(d)}

\* Variant of to_dict: the completed item is left out.
ToDict_OmitsCompleted(task) ==
  << <<"id", task.id>>, <<"title", task.title>>,
     <<"description", task.description>> >>

\* Task.to_dict.
ToDict(task) ==
  << <<"id", task.id>>, <<"title", task.title>>,
     <<"description", task.description>>, <<"completed", task.completed>> >>

\* Variant of from_dict: description and completed are read like id and
\* title, so a dict without one of them raises KeyError.
FromDict_RequiresAllKeys(d) ==
  IF \/ ~DictHas(d, "id") \/ ~DictHas(d, "title")
     \/ ~DictHas(d, "description") \/ ~DictHas(d, "completed")
  THEN [exc |-> "KeyError", task |-> PyNone]
  ELSE TaskInit(DictGet(d, "id"), DictGet(d, "title"),
                DictGet(d, "description"), DictGet(d, "completed"))

\* Task.from_dict: data["id"] and data["title"] raise KeyError when missing;
\* description and completed are read with data.get and a default.
FromDict(d) ==
  IF ~DictHas(d, "id") \/ ~DictHas(d, "title")
  THEN [exc |-> "KeyError", task |-> PyNone]
  ELSE TaskInit(DictGet(d, "id"), DictGet(d, "title"),
                IF DictHas(d, "description") THEN DictGet(d, "description")
                ELSE PyStr(<<>>),
                IF DictHas(d, "completed") THEN DictGet(d, "completed")
                ELSE PyBool(FALSE))

\* task.id as the integer it compares as.
Id(task) == IntOf(task.id)

(***************************************************************************)
(* TodoService (src/src/services/todo_service.py) as functions of the      *)
(* task list ts, the counter nid and the arguments.  Each returns the      *)
(* list and counter after the call, what was returned (ret), the           *)
(* exception raised (exc, "none" when it returns) and, where a task is     *)
(* returned, that task's id (task, else 0).                                *)
(***************************************************************************)
\* get_task_by_id: position of the first task whose id is task_id; 0 for None.
RECURSIVE ScanFrom(_, _, _)
ScanFrom(ts, task_id, i) ==
  IF i > Len(ts) THEN 0
  ELSE IF Id(ts[i]) = task_id THEN i ELSE ScanFrom(ts, task_id, i + 1)

GetTaskIndex(ts, task_id) == ScanFrom(ts, task_id, 1)

\* Variant of the removal: drops the head of the list.
ListRemove_First(ts, i) == Tail(ts)

\* list.remove(task) for the task found at position i.
ListRemove(ts, i) == SubSeq(ts, 1, i - 1) \o SubSeq(ts, i + 1, Len(ts))

Outcome(ts, nid, r, e, t) ==
  [tasks |-> ts, next_id |-> nid, ret |-> r, exc |-> e, task |-> t]

\* Variants of add_task: the counter left as it was; the id taken from the
\* length of the list; the counter advanced before the task is constructed.
AddTaskR_NoIncrement(ts, nid, title, description) ==
  IF ~Truthy(title) \/ ~IsStr(title) \/ Strip(title.s) = <<>>
  THEN Outcome(ts, nid, "-", "InvalidTaskInputError", 0)
  ELSE LET c == TaskInit(PyInt(nid), title, description, PyBool(FALSE)) IN
    IF c.exc # "none"
    THEN Outcome(ts, nid, "-", "InvalidTaskInputError", 0)
    ELSE Outcome(Append(ts, c.task), nid, "Task", "none", Id(c.task))

AddTaskR_IdFromLen(ts, nid, title, description) ==
  IF ~Truthy(title) \/ ~IsStr(title) \/ Strip(title.s) = <<>>
  THEN Outcome(ts, nid, "-", "InvalidTaskInputError", 0)
  ELSE LET c == TaskInit(PyInt(Len(ts) + 1), title, description, PyBool(FALSE)) IN
    IF c.exc # "none"
    THEN Outcome(ts, nid, "-", "InvalidTaskInputError", 0)
    ELSE Outcome(Append(ts, c.task), nid + 1, "Task", "none", Id(c.task))

AddTaskR_ConsumesId(ts, nid, title, description) ==
  IF ~Truthy(title) \/ ~IsStr(title) \/ Strip(title.s) = <<>>
  THEN Outcome(ts, nid, "-", "InvalidTaskInputError", 0)
  ELSE LET c == TaskInit(PyInt(nid), title, description, PyBool(FALSE)) IN
    IF c.exc # "none"
    THEN Outcome(ts, nid + 1, "-", "InvalidTaskInputError", 0)
    ELSE Outcome(Append(ts, c.task), nid + 1, "Task", "none", Id(c.task))

\* Variant of add_task: the title is stored without its surrounding whitespace.
AddTaskR_StripsTitle(ts, nid, title, description) ==
  IF ~Truthy(title) \/ ~IsStr(title) \/ Strip(title.s) = <<>>
  THEN Outcome(ts, nid, "-", "InvalidTaskInputError", 0)
  ELSE LET c == TaskInit(PyInt(nid), PyStr(Strip(title.s)), description, PyBool(FALSE)) IN
    IF c.exc # "none"
    THEN Outcome(ts, nid, "-", "InvalidTaskInputError", 0)
    ELSE Outcome(Append(ts, c.task), nid + 1, "Task", "none", Id(c.task))

\* Variant of add_task: the new task is put at the front of the list.
AddTaskR_Prepends(ts, nid, title, description) ==
  IF ~Truthy(title) \/ ~IsStr(title) \/ Strip(title.s) = <<>>
  THEN Outcome(ts, nid, "-", "InvalidTaskInputError", 0)
  ELSE LET c == TaskInit(PyInt(nid), title, description, PyBool(FALSE)) IN
    IF c.exc # "none"
    THEN Outcome(ts, nid, "-", "InvalidTaskInputError", 0)
    ELSE Outcome(<<c.task>> \o ts, nid + 1, "Task", "none", Id(c.task))

\* title.strip() on a value that is not a string raises AttributeError.
AddTaskR(ts, nid, title, description) ==
  IF ~Truthy(title)
  THEN Outcome(ts, nid, "-", "InvalidTaskInputError", 0)
  ELSE IF ~IsStr(title)
  THEN Outcome(ts, nid, "-", "AttributeError", 0)
  ELSE IF Strip(title.s) = <<>>
  THEN Outcome(ts, nid, "-", "InvalidTaskInputError", 0)
  ELSE LET c == TaskInit(PyInt(nid), title, description, PyBool(FALSE)) IN
    IF c.exc # "none"
    THEN Outcome(ts, nid, "-", "InvalidTaskInputError", 0)
    ELSE Outcome(Append(ts, c.task), nid + 1, "Task", "none", Id(c.task))

\* add_task(title): description takes its default, "".
AddTaskDescriptionDefault == PyStr(<<>>)

AddTaskR1(ts, nid, title) == AddTaskR(ts, nid, title, AddTaskDescriptionDefault)

GetTaskByIdR(ts, nid, task_id) ==
  LET i == GetTaskIndex(ts, task_id) IN
    IF i = 0 THEN Outcome(ts, nid, "None", "none", 0)
    ELSE Outcome(ts, nid, "Task", "none", Id(ts[i]))

\* Variants of update_task: a falsy argument is taken as not provided; the
\* description is assigned before the title; the task is rebuilt from its
\* id, title and description.
UpdateTaskR_FalsyIsAbsent(ts, nid, task_id, title, description) ==
  LET i == GetTaskIndex(ts, task_id) IN
    IF i = 0 THEN Outcome(ts, nid, "False", "none", 0)
    ELSE
      LET a == IF Truthy(title) THEN SetTitle(ts[i], title)
               ELSE [exc |-> "none", task |-> ts[i]] IN
        IF a.exc # "none"
        THEN Outcome(ts, nid, "-", "InvalidTaskInputError", 0)
        ELSE
          LET b == IF Truthy(description)
                   THEN SetDescription(a.task, description)
                   ELSE [exc |-> "none", task |-> a.task] IN
            IF b.exc # "none"
            THEN Outcome([ts EXCEPT ![i] = a.task], nid, "-",
                         "InvalidTaskInputError", 0)
            ELSE Outcome([ts EXCEPT ![i] = b.task], nid, "True", "none", 0)

UpdateTaskR_DescriptionFirst(ts, nid, task_id, title, description) ==
  LET i == GetTaskIndex(ts, task_id) IN
    IF i = 0 THEN Outcome(ts, nid, "False", "none", 0)
    ELSE
      LET a == IF description # PyNone THEN SetDescription(ts[i], description)
               ELSE [exc |-> "none", task |-> ts[i]] IN
        IF a.exc # "none"
        THEN Outcome(ts, nid, "-", "InvalidTaskInputError", 0)
        ELSE
          LET b == IF title # PyNone THEN SetTitle(a.task, title)
                   ELSE [exc |-> "none", task |-> a.task] IN
            IF b.exc # "none"
            THEN Outcome([ts EXCEPT ![i] = a.task], nid, "-",
                         "InvalidTaskInputError", 0)
            ELSE Outcome([ts EXCEPT ![i] = b.task], nid, "True", "none", 0)

UpdateTaskR_Rebuilds(ts, nid, task_id, title, description) ==
  LET i == GetTaskIndex(ts, task_id) IN
    IF i = 0 THEN Outcome(ts, nid, "False", "none", 0)
    ELSE
      LET c == TaskInit(ts[i].id,
                        IF title # PyNone THEN title ELSE ts[i].title,
                        IF description # PyNone THEN description
                        ELSE ts[i].description,
                        PyBool(FALSE)) IN
        IF c.exc # "none"
        THEN Outcome(ts, nid, "-", "InvalidTaskInputError", 0)
        ELSE Outcome([ts EXCEPT ![i] = c.task], nid, "True", "none", 0)

UpdateTaskR(ts, nid, task_id, title, description) ==
  LET i == GetTaskIndex(ts, task_id) IN
    IF i = 0 THEN Outcome(ts, nid, "False", "none", 0)
    ELSE
      LET a == IF title # PyNone THEN SetTitle(ts[i], title)
               ELSE [exc |-> "none", task |-> ts[i]] IN
        IF a.exc # "none"
        THEN Outcome(ts, nid, "-", "InvalidTaskInputError", 0)
        ELSE
          LET b == IF description # PyNone
                   THEN SetDescription(a.task, description)
                   ELSE [exc |-> "none", task |-> a.task] IN
            IF b.exc # "none"
            THEN Outcome([ts EXCEPT ![i] = a.task], nid, "-",
                         "InvalidTaskInputError", 0)
            ELSE Outcome([ts EXCEPT ![i] = b.task], nid, "True", "none", 0)

\* Variant of update_task_status: the flag is flipped, whatever is passed.
UpdateTaskStatusR_Toggles(ts, nid, task_id, completed) ==
  LET i == GetTaskIndex(ts, task_id) IN
    IF i = 0 THEN Outcome(ts, nid, "False", "none", 0)
    ELSE IF ~IsBool(completed)
    THEN Outcome(ts, nid, "-", "InvalidTaskInputError", 0)
    ELSE Outcome([ts EXCEPT ![i] =
                    [ts[i] EXCEPT !.completed = PyBool(~ts[i].completed.b)]],
                 nid, "True", "none", 0)

\* Variant of update_task_status: the type of completed is checked before
\* the task is looked up.
UpdateTaskStatusR_TypeFirst(ts, nid, task_id, completed) ==
  LET i == GetTaskIndex(ts, task_id) IN
    IF ~IsBool(completed)
    THEN Outcome(ts, nid, "-", "InvalidTaskInputError", 0)
    ELSE IF i = 0 THEN Outcome(ts, nid, "False", "none", 0)
    ELSE Outcome([ts EXCEPT ![i] = [ts[i] EXCEPT !.completed = completed]],
                 nid, "True", "none", 0)

UpdateTaskStatusR(ts, nid, task_id, completed) ==
  LET i == GetTaskIndex(ts, task_id) IN
    IF i = 0 THEN Outcome(ts, nid, "False", "none", 0)
    ELSE IF ~IsBool(completed)
    THEN Outcome(ts, nid, "-", "InvalidTaskInputError", 0)
    ELSE
      LET c == SetCompleted(ts[i], completed) IN
        IF c.exc # "none" THEN Outcome(ts, nid, "-", "ValueError", 0)
        ELSE Outcome([ts EXCEPT ![i] = c.task], nid, "True", "none", 0)

\* Variant of delete_task: deleting the newest id hands it back to the counter.
DeleteTaskR_ReclaimsId(ts, nid, task_id) ==
  LET i == GetTaskIndex(ts, task_id) IN
    IF i = 0 THEN Outcome(ts, nid, "False", "none", 0)
    ELSE Outcome(ListRemove(ts, i), IF task_id = nid - 1 THEN nid - 1 ELSE nid,
                 "True", "none", 0)

DeleteTaskR(ts, nid, task_id) ==
  LET i == GetTaskIndex(ts, task_id) IN
    IF i = 0 THEN Outcome(ts, nid, "False", "none", 0)
    ELSE Outcome(ListRemove(ts, i), nid, "True", "none", 0)

\* Variant of get_all_tasks: returns self._tasks itself.
GetAllTasksR_NoCopy(ts) == [alias |-> TRUE, items |-> ts]

\* get_all_tasks: a new list object holding the same task references.
GetAllTasksR(ts) == [alias |-> FALSE, items |-> ts]

(***************************************************************************)
(* State.  tasks and next_id are the service's _tasks and _next_id.        *)
(* last records the most recent call and its outcome; assigned is the set  *)
(* of ids given to tasks so far and adds the number of adds that returned  *)
(* a task; live is the ids that adds returned and that no delete has      *)
(* returned True for since, in the order of the adds.  held, ret and retAlias are a caller's hold on the list that    *)
(* get_all_tasks returned: the references in it (as task ids), and whether *)
(* it is the service's own list object.  cli is the menu loop of the CLI:  *)
(* where it stands (pc), and for its latest step the choice read, the      *)
(* answers read after it, the message printed and the arguments passed on  *)
(* to the service.                                                         *)
(* obj is a Task handled directly (PyNone when the constructor raised),    *)
(* data the dict last made by to_dict, and tcall the latest call on the    *)
(* Task class with its arguments and the exception it raised.              *)
(***************************************************************************)
\* The menu loop of the CLI before it has read a choice: the menu is shown.
AtMenu == [pc |-> "menu", choice |-> PyNone, answers |-> <<>>, out |-> "-",
           passed |-> <<>>]

Call(op, id, r) == [op |-> op, id |-> id, ret |-> r.ret, exc |-> r.exc, task |-> r.task]

Init ==
  /\ tasks = <<>>
  /\ next_id = 1
  /\ last = [op |-> "init", id |-> 0, ret |-> "-", exc |-> "none", task |-> 0]
  /\ assigned = {}
  /\ adds = 0
  /\ live = <<>>
  /\ ret = <<>>
  /\ retAlias = FALSE
  /\ held = FALSE
  /\ cli = AtMenu
  /\ obj = PyNone
  /\ data = <<>>
  /\ tcall = [op |-> "none", id |-> Absent, title |-> Absent,
              description |-> Absent, completed |-> Absent, exc |-> "none"]

\* A call of the service with outcome r, as the service and last record it.
Record(op, id, r) ==
  /\ tasks' = r.tasks
  /\ next_id' = r.next_id
  /\ last' = Call(op, id, r)
  /\ assigned' = IF op = "add" /\ r.ret = "Task" THEN assigned \cup {r.task} ELSE assigned
  /\ adds' = IF op = "add" /\ r.ret = "Task" THEN adds + 1 ELSE adds
  /\ live' = IF op = "add" /\ r.ret = "Task" THEN Append(live, r.task)
             ELSE IF op = "delete" /\ r.ret = "True"
             THEN SelectSeq(live, LAMBDA k : k # id)
             ELSE live

Apply(op, id, r) ==
  /\ Record(op, id, r)
  /\ UNCHANGED <<ret, retAlias, held, cli, tvars>>

AddTask(title, description) ==
  Apply("add", 0, AddTaskR(tasks, next_id, title, description))

AddTask1(title) ==
  Apply("add", 0, AddTaskR1(tasks, next_id, title))

GetTaskById(task_id) ==
  Apply("get", task_id, GetTaskByIdR(tasks, next_id, task_id))

UpdateTask(task_id, title, description) ==
  Apply("update", task_id, UpdateTaskR(tasks, next_id, task_id, title, description))

UpdateTaskStatus(task_id, completed) ==
  Apply("status", task_id, UpdateTaskStatusR(tasks, next_id, task_id, completed))

DeleteTask(task_id) ==
  Apply("delete", task_id, DeleteTaskR(tasks, next_id, task_id))

\* get_all_tasks, and the caller keeping the list it returned.
Refs(ts) == [i \in 1..Len(ts) |-> Id(ts[i])]

GetAllTasks ==
  LET r == GetAllTasksR(tasks) IN
    /\ held' = TRUE
    /\ retAlias' = r.alias
    /\ ret' = IF r.alias THEN <<>> ELSE Refs(r.items)
    /\ last' = [op |-> "list", id |-> 0, ret |-> "List", exc |-> "none", task |-> 0]
    /\ UNCHANGED <<tasks, next_id, assigned, adds, live, cli, tvars>>

\* What a caller can do to a list l: append a reference it holds (that of
\* position k), remove position k, or reverse it.
Reverse(l) == [i \in 1..Len(l) |-> l[Len(l) + 1 - i]]

ListMutate(l, m, k) ==
  CASE m = "append" -> Append(l, l[k])
    [] m = "remove" -> ListRemove(l, k)
    [] m = "reverse" -> Reverse(l)

\* The list the caller holds: the service's own list object when
\* get_all_tasks handed that out, else the separate object it returned.
CallerList == IF retAlias THEN tasks ELSE ret

CallerMutate(m, k) ==
  /\ held
  /\ k \in 1..Len(CallerList)
  /\ IF retAlias
     THEN tasks' = ListMutate(tasks, m, k) /\ ret' = ret
     ELSE ret' = ListMutate(ret, m, k) /\ tasks' = tasks
  /\ last' = [op |-> "caller", id |-> 0, ret |-> "-", exc |-> "none", task |-> 0]
  /\ UNCHANGED <<next_id, assigned, adds, live, retAlias, held, cli, tvars>>

(***************************************************************************)
(* A Task used directly: constructed, assigned to, converted to a dict and *)
(* built from one.                                                         *)
(***************************************************************************)
TCall(op, i, t, d, c, e) ==
  [op |-> op, id |-> i, title |-> t, description |-> d, completed |-> c,
   exc |-> e]

Construct(i, t, d, c) ==
  LET r == TaskNew(i, t, d, c) IN
    /\ obj' = r.task
    /\ data' = <<>>
    /\ tcall' = TCall("init", i, t, d, c, r.exc)
    /\ UNCHANGED svars

AssignTitle(v) ==
  /\ obj # PyNone
  /\ LET r == SetTitle(obj, v) IN
       obj' = r.task /\ tcall' = TCall("set_title", Absent, v, Absent, Absent, r.exc)
  /\ UNCHANGED <<data, svars>>

AssignDescription(v) ==
  /\ obj # PyNone
  /\ LET r == SetDescription(obj, v) IN
       obj' = r.task
       /\ tcall' = TCall("set_description", Absent, Absent, v, Absent, r.exc)
  /\ UNCHANGED <<data, svars>>

AssignCompleted(v) ==
  /\ obj # PyNone
  /\ LET r == SetCompleted(obj, v) IN
       obj' = r.task
       /\ tcall' = TCall("set_completed", Absent, Absent, Absent, v, r.exc)
  /\ UNCHANGED <<data, svars>>

TaskToDict ==
  /\ obj # PyNone
  /\ data' = ToDict(obj)
  /\ tcall' = TCall("to_dict", Absent, Absent, Absent, Absent, "none")
  /\ UNCHANGED <<obj, svars>>

TaskFromDict ==
  /\ data # <<>>
  /\ LET r == FromDict(data) IN
       obj' = r.task
       /\ tcall' = TCall("from_dict", Absent, Absent, Absent, Absent, r.exc)
  /\ UNCHANGED <<data, svars>>

\* Task.from_dict(d) on a dict d that the caller wrote.
TaskFromDictOf(d) ==
  /\ data' = d
  /\ LET r == FromDict(d) IN
       obj' = r.task
       /\ tcall' = TCall("from_dict", Absent, Absent, Absent, Absent, r.exc)
  /\ UNCHANGED svars

\* A caller that assigns to the fields of a task the service returned.  The
\* task references it holds (as task ids) are the one add_task or
\* get_task_by_id returned last and those in the list get_all_tasks returned.
CallerRefs ==
  ({last.task} \ {0}) \cup (IF held /\ ~retAlias THEN {ret[k] : k \in 1..Len(ret)} ELSE {})

\* Variant of the returned reference: it names a copy, no task of the list.
Deref_Copy(ts, ref) == 0

\* The task a returned reference names: add_task, get_task_by_id and the
\* list of get_all_tasks hand out the objects of _tasks themselves, so it is
\* the task of the list with that id (its position; 0 once it was removed).
Deref(ts, ref) == GetTaskIndex(ts, ref)

\* task.<field> = v: the property setters; id is a property without setter.
Assign(task, field, v) ==
  CASE field = "title" -> SetTitle(task, v)
    [] field = "description" -> SetDescription(task, v)
    [] field = "completed" -> SetCompleted(task, v)
    [] field = "id" -> [exc |-> "AttributeError", task |-> task]

\* A task that delete_task removed from the list while the caller still
\* holds it: the service no longer sees it, so only whether the setter
\* raises matters, and that does not depend on the fields it has.
Detached(ref) == TaskInit(PyInt(ref), PyStr(<<[c |-> "a", n |-> 1]>>),
                          PyStr(<<>>), PyBool(FALSE)).task

\* last records the assignment with the field and the value assigned.
CallerAssign(ref, field, v) ==
  /\ ref \in CallerRefs
  /\ LET i == Deref(tasks, ref)
         r == Assign(IF i = 0 THEN Detached(ref) ELSE tasks[i], field, v) IN
       /\ tasks' = IF i = 0 THEN tasks ELSE [tasks EXCEPT ![i] = r.task]
       /\ last' = [op |-> "assign", id |-> ref, ret |-> "-", exc |-> r.exc,
                   task |-> ref, field |-> field, value |-> v]
  /\ UNCHANGED <<next_id, assigned, adds, live, ret, retAlias, held, cli, tvars>>

(***************************************************************************)
(* The CLI (src/phase1/src/cli/main.py) and its input helpers              *)
(* (src/phase1/src/utils/validation.py).  What input() gives at a prompt   *)
(* is the line typed, or EOFError / KeyboardInterrupt raised in its place. *)
(***************************************************************************)
Eof == [kind |-> "EOFError", b |-> FALSE, s |-> <<>>, n |-> 0]
Interrupt == [kind |-> "KeyboardInterrupt", b |-> FALSE, s |-> <<>>, n |-> 0]
InputRaises(a) == a.kind \in {"EOFError", "KeyboardInterrupt"}

\* The characters of a string, one by one, and the string of given characters.
RECURSIVE Chars(_)
Chars(s) ==
  IF s = <<>> THEN <<>>
  ELSE [i \in 1..Head(s).n |-> Head(s).c] \o Chars(Tail(s))

RECURSIVE Runs(_)
Runs(cs) ==
  IF cs = <<>> THEN <<>>
  ELSE LET r == Runs(Tail(cs)) IN
    IF r # <<>> /\ Head(r).c = Head(cs)
    THEN <<[c |-> Head(cs), n |-> Head(r).n + 1]>> \o Tail(r)
    ELSE <<[c |-> Head(cs), n |-> 1]>> \o r

Lit(cs) == PyStr(Runs(cs))

\* str.lower(), on the letters the answers are written with.
LowerChar(c) ==
  CASE c = "Y" -> "y"
    [] c = "E" -> "e"
    [] c = "S" -> "s"
    [] c = "N" -> "n"
    [] c = "O" -> "o"
    [] OTHER -> c

RECURSIVE MergeRuns(_)
MergeRuns(s) ==
  IF Len(s) < 2 THEN s
  ELSE LET r == MergeRuns(Tail(s)) IN
    IF Head(r).c = Head(s).c
    THEN <<[c |-> Head(s).c, n |-> Head(s).n + Head(r).n]>> \o Tail(r)
    ELSE <<Head(s)>> \o r

Lower(s) == MergeRuns([i \in 1..Len(s) |-> [c |-> LowerChar(s[i].c), n |-> s[i].n]])

\* int(s) of a string: surrounding whitespace is dropped, then an optional
\* sign and decimal digits, single underscores allowed between digits.
\* IntValid is FALSE where int raises ValueError.
Digits == {"0", "1", "2", "3", "4", "5", "6", "7", "8", "9"}
DigitValue(c) ==
  CASE c = "0" -> 0 [] c = "1" -> 1 [] c = "2" -> 2 [] c = "3" -> 3
    [] c = "4" -> 4 [] c = "5" -> 5 [] c = "6" -> 6 [] c = "7" -> 7
    [] c = "8" -> 8 [] c = "9" -> 9

IntSigned(cs) == cs # <<>> /\ Head(cs) \in {"+", "-"}
IntBody(s) == LET cs == Chars(Strip(s)) IN IF IntSigned(cs) THEN Tail(cs) ELSE cs

IntValid(s) ==
  LET b == IntBody(s) IN
    /\ b # <<>>
    /\ \A i \in 1..Len(b) : b[i] \in Digits \cup {"_"}
    /\ b[1] \in Digits /\ b[Len(b)] \in Digits
    /\ \A i \in 1..(Len(b) - 1) : ~(b[i] = "_" /\ b[i + 1] = "_")

RECURSIVE DigitsValue(_, _)
DigitsValue(b, acc) ==
  IF b = <<>> THEN acc
  ELSE IF Head(b) = "_" THEN DigitsValue(Tail(b), acc)
  ELSE DigitsValue(Tail(b), 10 * acc + DigitValue(Head(b)))

IntValue(s) ==
  LET cs == Chars(Strip(s))
      v == DigitsValue(IntBody(s), 0)
  IN IF cs # <<>> /\ Head(cs) = "-" THEN 0 - v ELSE v

\* utils.validation.
SanitizeInput(input_str) ==
  IF input_str = PyNone THEN PyStr(<<>>) ELSE PyStr(Strip(input_str.s))

IsEmptyOrWhitespaceOnly(text) ==
  IF ~Truthy(text) \/ ~IsStr(text) THEN TRUE ELSE Strip(text.s) = <<>>

ValidateNumericInput(input_str) ==
  IF ~Truthy(input_str) \/ ~IsStr(input_str) THEN FALSE ELSE IntValid(input_str.s)

\* TodoCLI.get_user_choice: the line stripped, "0" when input() raises.
GetUserChoice(a) == IF InputRaises(a) THEN Lit(<<"0">>) ELSE PyStr(Strip(a.s))

\* What a handler of the CLI did, given the registry (ts, nid) and the
\* answers typed: the last call it made to the service (op "none" and the
\* registry as it was when it made none), the answers it read, the message
\* it printed, whether an exception left it, and the arguments it passed to
\* add_task or update_task.
NoCall(ts, nid) == [op |-> "none", id |-> 0, r |-> Outcome(ts, nid, "-", "none", 0)]
Handled(svc, answers, out, raised, passed) ==
  [svc |-> svc, answers |-> answers, out |-> out, raised |-> raised,
   passed |-> passed]

\* TodoCLI.add_task.
CliAddTaskR(ts, nid, a1, a2) ==
  IF InputRaises(a1) THEN Handled(NoCall(ts, nid), <<a1>>, "-", TRUE, <<>>)
  ELSE LET title == SanitizeInput(a1) IN
    IF IsEmptyOrWhitespaceOnly(title)
    THEN Handled(NoCall(ts, nid), <<a1>>, "EmptyTitle", FALSE, <<>>)
    ELSE IF InputRaises(a2)
    THEN Handled(NoCall(ts, nid), <<a1, a2>>, "-", TRUE, <<>>)
    ELSE LET description == SanitizeInput(a2)
             r == AddTaskR(ts, nid, title, description)
         IN Handled([op |-> "add", id |-> 0, r |-> r], <<a1, a2>>,
                    IF r.exc = "none" THEN "Added" ELSE "Error", FALSE,
                    <<title, description>>)

\* TodoCLI.view_all_tasks.
CliViewAllTasksR(ts, nid) ==
  Handled(NoCall(ts, nid), <<>>,
          IF GetAllTasksR(ts).items = <<>> THEN "NoTasks" ELSE "Listed",
          FALSE, <<>>)

\* Variant of the update flow: an answer is passed on as typed and trimmed,
\* also when it is blank.
CliUpdateTaskR_BlankIsValue(ts, nid, a1, a2, a3) ==
  IF InputRaises(a1) THEN Handled(NoCall(ts, nid), <<a1>>, "-", TRUE, <<>>)
  ELSE IF ~ValidateNumericInput(SanitizeInput(a1))
  THEN Handled(NoCall(ts, nid), <<a1>>, "InvalidId", FALSE, <<>>)
  ELSE
    LET task_id == IntValue(SanitizeInput(a1).s)
        g == [op |-> "get", id |-> task_id, r |-> GetTaskByIdR(ts, nid, task_id)]
    IN
      IF g.r.ret = "None" THEN Handled(g, <<a1>>, "NotFound", FALSE, <<>>)
      ELSE IF InputRaises(a2) THEN Handled(g, <<a1, a2>>, "-", TRUE, <<>>)
      ELSE IF InputRaises(a3) THEN Handled(g, <<a1, a2, a3>>, "-", TRUE, <<>>)
      ELSE
        LET new_title == SanitizeInput(a2)
            new_description == SanitizeInput(a3)
            r == UpdateTaskR(ts, nid, task_id, new_title, new_description)
        IN Handled([op |-> "update", id |-> task_id, r |-> r], <<a1, a2, a3>>,
                   IF r.exc # "none" THEN "Error"
                   ELSE IF r.ret = "True" THEN "Updated" ELSE "Failed",
                   FALSE, <<new_title, new_description>>)

\* TodoCLI.update_task.
CliUpdateTaskR(ts, nid, a1, a2, a3) ==
  IF InputRaises(a1) THEN Handled(NoCall(ts, nid), <<a1>>, "-", TRUE, <<>>)
  ELSE IF ~ValidateNumericInput(SanitizeInput(a1))
  THEN Handled(NoCall(ts, nid), <<a1>>, "InvalidId", FALSE, <<>>)
  ELSE
    LET task_id == IntValue(SanitizeInput(a1).s)
        g == [op |-> "get", id |-> task_id, r |-> GetTaskByIdR(ts, nid, task_id)]
    IN
      IF g.r.ret = "None" THEN Handled(g, <<a1>>, "NotFound", FALSE, <<>>)
      ELSE IF InputRaises(a2) THEN Handled(g, <<a1, a2>>, "-", TRUE, <<>>)
      ELSE IF InputRaises(a3) THEN Handled(g, <<a1, a2, a3>>, "-", TRUE, <<>>)
      ELSE
        LET task == ts[GetTaskIndex(ts, task_id)]
            title1 == IF Strip(a2.s) # <<>> THEN SanitizeInput(a2) ELSE PyNone
            description1 == IF Strip(a3.s) # <<>> THEN SanitizeInput(a3) ELSE PyNone
            new_title == IF title1 = task.title THEN PyNone ELSE title1
            new_description == IF description1 = task.description THEN PyNone
                               ELSE description1
            r == UpdateTaskR(ts, nid, task_id, new_title, new_description)
        IN Handled([op |-> "update", id |-> task_id, r |-> r], <<a1, a2, a3>>,
                   IF r.exc # "none" THEN "Error"
                   ELSE IF r.ret = "True" THEN "Updated" ELSE "Failed",
                   FALSE, <<new_title, new_description>>)

\* Variant of the delete flow: the task is deleted whatever the answer to
\* the confirmation prompt.
CliDeleteTaskR_AnyAnswer(ts, nid, a1, a2) ==
  IF InputRaises(a1) THEN Handled(NoCall(ts, nid), <<a1>>, "-", TRUE, <<>>)
  ELSE IF ~ValidateNumericInput(SanitizeInput(a1))
  THEN Handled(NoCall(ts, nid), <<a1>>, "InvalidId", FALSE, <<>>)
  ELSE
    LET task_id == IntValue(SanitizeInput(a1).s)
        g == [op |-> "get", id |-> task_id, r |-> GetTaskByIdR(ts, nid, task_id)]
    IN
      IF g.r.ret = "None" THEN Handled(g, <<a1>>, "NotFound", FALSE, <<>>)
      ELSE IF InputRaises(a2) THEN Handled(g, <<a1, a2>>, "-", TRUE, <<>>)
      ELSE
        LET r == DeleteTaskR(ts, nid, task_id) IN
          Handled([op |-> "delete", id |-> task_id, r |-> r], <<a1, a2>>,
                  IF r.exc # "none" THEN "Error"
                  ELSE IF r.ret = "True" THEN "Deleted" ELSE "Failed",
                  FALSE, <<>>)

\* TodoCLI.delete_task.
CliDeleteTaskR(ts, nid, a1, a2) ==
  IF InputRaises(a1) THEN Handled(NoCall(ts, nid), <<a1>>, "-", TRUE, <<>>)
  ELSE IF ~ValidateNumericInput(SanitizeInput(a1))
  THEN Handled(NoCall(ts, nid), <<a1>>, "InvalidId", FALSE, <<>>)
  ELSE
    LET task_id == IntValue(SanitizeInput(a1).s)
        g == [op |-> "get", id |-> task_id, r |-> GetTaskByIdR(ts, nid, task_id)]
    IN
      IF g.r.ret = "None" THEN Handled(g, <<a1>>, "NotFound", FALSE, <<>>)
      ELSE IF InputRaises(a2) THEN Handled(g, <<a1, a2>>, "-", TRUE, <<>>)
      ELSE
        LET confirm_clean == PyStr(Lower(SanitizeInput(a2).s)) IN
          IF confirm_clean \in {Lit(<<"y">>), Lit(<<"y", "e", "s">>)}
          THEN LET r == DeleteTaskR(ts, nid, task_id) IN
            Handled([op |-> "delete", id |-> task_id, r |-> r], <<a1, a2>>,
                    IF r.exc # "none" THEN "Error"
                    ELSE IF r.ret = "True" THEN "Deleted" ELSE "Failed",
                    FALSE, <<>>)
          ELSE Handled(g, <<a1, a2>>, "Cancelled", FALSE, <<>>)

\* TodoCLI.mark_task_complete (completed TRUE) and mark_task_incomplete.
CliMarkTaskR(ts, nid, a1, completed) ==
  IF InputRaises(a1) THEN Handled(NoCall(ts, nid), <<a1>>, "-", TRUE, <<>>)
  ELSE IF ~ValidateNumericInput(SanitizeInput(a1))
  THEN Handled(NoCall(ts, nid), <<a1>>, "InvalidId", FALSE, <<>>)
  ELSE
    LET task_id == IntValue(SanitizeInput(a1).s)
        g == [op |-> "get", id |-> task_id, r |-> GetTaskByIdR(ts, nid, task_id)]
    IN
      IF g.r.ret = "None" THEN Handled(g, <<a1>>, "NotFound", FALSE, <<>>)
      ELSE
        LET r == UpdateTaskStatusR(ts, nid, task_id, PyBool(completed)) IN
          Handled([op |-> "status", id |-> task_id, r |-> r], <<a1>>,
                  IF r.exc # "none" THEN "Error"
                  ELSE IF r.ret = "True" THEN "Marked" ELSE "Failed",
                  FALSE, <<>>)

\* TodoCLI.run, one turn of the loop at the menu: the choice c has been
\* read and its handler did h.  An exception that leaves the handler leaves
\* run; otherwise run goes on to its pause prompt.
Turn(c, handled) ==
  /\ cli.pc = "menu"
  /\ \E h \in {handled} :
       /\ IF h.svc.op = "none"
          THEN UNCHANGED <<tasks, next_id, last, assigned, adds, live>>
          ELSE Record(h.svc.op, h.svc.id, h.svc.r)
       /\ cli' = [pc |-> IF h.raised THEN "crashed" ELSE "pause", choice |-> c,
                  answers |-> h.answers, out |-> h.out, passed |-> h.passed]
  /\ UNCHANGED <<ret, retAlias, held, tvars>>

RunAddTask(c, a1, a2) ==
  /\ GetUserChoice(c) = Lit(<<"1">>)
  /\ Turn(GetUserChoice(c), CliAddTaskR(tasks, next_id, a1, a2))

RunViewAllTasks(c) ==
  /\ GetUserChoice(c) = Lit(<<"2">>)
  /\ Turn(GetUserChoice(c), CliViewAllTasksR(tasks, next_id))

RunUpdateTask(c, a1, a2, a3) ==
  /\ GetUserChoice(c) = Lit(<<"3">>)
  /\ Turn(GetUserChoice(c), CliUpdateTaskR(tasks, next_id, a1, a2, a3))

RunDeleteTask(c, a1, a2) ==
  /\ GetUserChoice(c) = Lit(<<"4">>)
  /\ Turn(GetUserChoice(c), CliDeleteTaskR(tasks, next_id, a1, a2))

RunMarkTaskComplete(c, a1) ==
  /\ GetUserChoice(c) = Lit(<<"5">>)
  /\ Turn(GetUserChoice(c), CliMarkTaskR(tasks, next_id, a1, TRUE))

RunMarkTaskIncomplete(c, a1) ==
  /\ GetUserChoice(c) = Lit(<<"6">>)
  /\ Turn(GetUserChoice(c), CliMarkTaskR(tasks, next_id, a1, FALSE))

\* Choice "0": the loop is left by break, before the pause prompt.
RunExit(c) ==
  /\ GetUserChoice(c) = Lit(<<"0">>)
  /\ cli.pc = "menu"
  /\ cli' = [pc |-> "exited", choice |-> GetUserChoice(c), answers |-> <<>>,
             out |-> "Goodbye", passed |-> <<>>]
  /\ UNCHANGED <<tasks, next_id, last, assigned, adds, live, ret, retAlias,
                 held, tvars>>

MenuChoices ==
  {Lit(<<"0">>), Lit(<<"1">>), Lit(<<"2">>), Lit(<<"3">>), Lit(<<"4">>),
   Lit(<<"5">>), Lit(<<"6">>)}

RunInvalidChoice(c) ==
  /\ GetUserChoice(c) \notin MenuChoices
  /\ Turn(GetUserChoice(c),
          Handled(NoCall(tasks, next_id), <<>>, "InvalidChoice", FALSE, <<>>))

\* The pause prompt that ends a turn: input() returns and the menu is shown
\* again, or it raises and the exception leaves run.
RunPause(a) ==
  /\ cli.pc = "pause"
  /\ cli' = IF InputRaises(a) THEN [cli EXCEPT !.pc = "crashed"] ELSE AtMenu
  /\ UNCHANGED <<tasks, next_id, last, assigned, adds, live, ret, retAlias,
                 held, tvars>>

(***************************************************************************)
(* Inputs.                                                                 *)
(***************************************************************************)
Blank == PyStr(<<>>)
Spaces == PyStr(Rep(" ", 2))
Padded == PyStr(Rep(" ", 1) \o Rep("a", 1) \o Rep(" ", 1))
Title200 == PyStr(Rep("a", MaxTitleLen))
Title201 == PyStr(Rep(" ", 1) \o Rep("a", MaxTitleLen))
Desc1000 == PyStr(Rep("d", MaxDescLen))
Desc1001 == PyStr(Rep("d", MaxDescLen + 1))
NotABool == PyStr(Rep("i", 1) \o Rep("n", 1) \o Rep("v", 1))

NotAnInt == PyStr(Rep("x", 1))
Titles == {Blank, Spaces, Padded, Title200, Title201}
Descriptions == {Blank, Desc1000, Desc1001}
Completeds == {PyBool(TRUE), PyBool(FALSE), NotABool}

ThinTitles == {Spaces, Padded, Title200}
ThinDescriptions == {Blank, Desc1001}
ListTitles == {Spaces, Padded}
ListDescriptions == {Blank}

\* Arguments of the Task constructor and values assigned to its fields.
TaskIds == {PyInt(-1), PyInt(0), PyInt(1), PyBool(TRUE), PyBool(FALSE), NotAnInt}
TaskTitles == Titles \cup {PyNone}
TaskDescriptions == Descriptions \cup {PyNone}

\* Dicts handed to from_dict: the items that are given (not Absent), in the
\* order id, title, description, completed.
DictOf(i, t, d, c) ==
  SelectSeq(<< <<"id", i>>, <<"title", t>>, <<"description", d>>,
               <<"completed", c>> >>, LAMBDA item : item[2] # Absent)

Dicts ==
  {DictOf(i, t, d, c) : i \in TaskIds \cup {Absent},
                        t \in TaskTitles \cup {Absent},
                        d \in TaskDescriptions \cup {Absent},
                        c \in Completeds \cup {PyNone, Absent}}

\* What a caller assigns to the fields of a returned task: for each field a
\* value it accepts and one it refuses; id refuses every value.
Assignments ==
  {<<"title", Title200>>, <<"title", Desc1001>>,
   <<"description", Title200>>, <<"description", Desc1001>>,
   <<"completed", PyBool(TRUE)>>, <<"completed", PyNone>>,
   <<"id", PyInt(1)>>}

\* Lines typed at the prompts of the CLI, and input() raising instead.
CliChoices ==
  MenuChoices \cup {Lit(<<" ", "4", " ">>), Lit(<<"7">>), Lit(<<>>), Eof, Interrupt}
CliIds ==
  {Lit(<<"1">>), Lit(<<" ", "2", " ">>), Lit(<<"+", "1">>), Lit(<<"x">>),
   Lit(<<>>), Eof}
CliConfirms ==
  {Lit(<<"y">>), Lit(<<" ", "Y", "E", "S", " ">>), Lit(<<"n">>), Lit(<<>>),
   Lit(<<"y", "e">>), Eof}
CliTitles == {Lit(<<" ", "a", " ">>), Lit(<<>>), Eof}
CliDescriptions == {Lit(<<"d">>), Eof}
CliThinIds == {Lit(<<"1">>), Lit(<<" ", "2", " ">>)}
CliNewTitles ==
  {Lit(<<>>), Lit(<<" ", " ">>), Lit(<<" ", "a", " ">>), Lit(<<"b">>), Eof}
CliNewDescriptions ==
  {Lit(<<>>), Lit(<<" ">>), Lit(<<" ", "d", " ">>), Lit(<<"e">>), Eof}
CliUpdateIds == CliThinIds \cup {Lit(<<"x">>), Eof}

\* Ids asked for: 0, every id that can have been assigned, and one beyond.
IdInputs(maxTasks) == 0..(maxTasks + 1)

(***************************************************************************)
(* The operations over given inputs, adds capped at maxTasks.              *)
(***************************************************************************)
Add(maxTasks, T, D) == \E t \in T, d \in D : next_id <= maxTasks /\ AddTask(t, d)
Add1(maxTasks, T) == \E t \in T : next_id <= maxTasks /\ AddTask1(t)
Get(maxTasks) == \E id \in IdInputs(maxTasks) : GetTaskById(id)
Update(maxTasks, T, D) ==
  \E id \in IdInputs(maxTasks), t \in T \cup {PyNone}, d \in D \cup {PyNone} :
    UpdateTask(id, t, d)
SetStatus(maxTasks) ==
  \E id \in IdInputs(maxTasks), c \in Completeds : UpdateTaskStatus(id, c)
Delete(maxTasks) == \E id \in IdInputs(maxTasks) : DeleteTask(id)
Mutate ==
  \E m \in {"append", "remove", "reverse"}, k \in 1..MaxRetLen :
    /\ m = "append" => Len(CallerList) < MaxRetLen
    /\ CallerMutate(m, k)

(***************************************************************************)
(* Spec: the service under every operation, with the rich string inputs.   *)
(***************************************************************************)
Next ==
  \/ Add(MaxTasks, Titles, Descriptions)
  \/ Add1(MaxTasks, Titles)
  \/ Get(MaxTasks)
  \/ Update(MaxTasks, Titles, Descriptions)
  \/ SetStatus(MaxTasks)
  \/ Delete(MaxTasks)

Spec == Init /\ [][Next]_vars

(***************************************************************************)
(* SpecIds: the same operations on more tasks, with fewer strings.         *)
(***************************************************************************)
NextIds ==
  \/ Add(MaxIdTasks, ThinTitles, ThinDescriptions)
  \/ Get(MaxIdTasks)
  \/ Update(MaxIdTasks, ThinTitles, ThinDescriptions)
  \/ SetStatus(MaxIdTasks)
  \/ Delete(MaxIdTasks)

SpecIds == Init /\ [][NextIds]_vars

(***************************************************************************)
(* SpecList: add, delete and get_all_tasks, with a caller that changes the *)
(* list it was handed.                                                     *)
(***************************************************************************)
NextList ==
  \/ Add(MaxListTasks, ListTitles, ListDescriptions)
  \/ Delete(MaxListTasks)
  \/ GetAllTasks
  \/ Mutate

SpecList == Init /\ [][NextList]_vars

(***************************************************************************)
(* SpecTask: a Task on its own.                                            *)
(***************************************************************************)
NextTask ==
  \/ \E i \in TaskIds, t \in TaskTitles, d \in TaskDescriptions \cup {Absent},
        c \in Completeds \cup {Absent} : Construct(i, t, d, c)
  \/ \E v \in TaskTitles : AssignTitle(v)
  \/ \E v \in TaskDescriptions : AssignDescription(v)
  \/ \E v \in Completeds \cup {PyNone} : AssignCompleted(v)
  \/ TaskToDict
  \/ TaskFromDict

SpecTask == Init /\ [][NextTask]_vars

(***************************************************************************)
(* SpecDict: from_dict on dicts written by a caller, and to_dict of the    *)
(* task it built.                                                          *)
(***************************************************************************)
NextDict ==
  \/ \E d \in Dicts : TaskFromDictOf(d)
  \/ TaskToDict

SpecDict == Init /\ [][NextDict]_vars

(***************************************************************************)
(* SpecDirect: add, get, delete and get_all_tasks, with a caller that      *)
(* assigns to the fields of the tasks it was handed.                       *)
(***************************************************************************)
Direct(maxTasks) ==
  \E ref \in 1..maxTasks, a \in Assignments : CallerAssign(ref, a[1], a[2])

NextDirect ==
  \/ Add(MaxDirectTasks, ListTitles, ListDescriptions)
  \/ Get(MaxDirectTasks)
  \/ Delete(MaxDirectTasks)
  \/ GetAllTasks
  \/ Direct(MaxDirectTasks)

SpecDirect == Init /\ [][NextDirect]_vars

(***************************************************************************)
(* SpecCli: the menu loop with every choice; the delete flow with all its  *)
(* answers, the other flows with few.                                      *)
(***************************************************************************)
\* The lines that get_user_choice reads as the choice n.
Chosen(n) == {c \in CliChoices : cli.pc = "menu" /\ GetUserChoice(c) = Lit(<<n>>)}
Unknown == {c \in CliChoices : cli.pc = "menu" /\ GetUserChoice(c) \notin MenuChoices}

CliAdd(maxTasks, T, D) ==
  \E c \in Chosen("1"), a1 \in T, a2 \in D :
    next_id <= maxTasks /\ RunAddTask(c, a1, a2)

NextCli ==
  \/ CliAdd(MaxCliTasks, CliTitles, CliDescriptions)
  \/ \E c \in Chosen("2") : RunViewAllTasks(c)
  \/ \E c \in Chosen("3"), a1 \in CliThinIds :
       RunUpdateTask(c, a1, Lit(<<>>), Lit(<<"e">>))
  \/ \E c \in Chosen("4"), a1 \in CliIds, a2 \in CliConfirms :
       RunDeleteTask(c, a1, a2)
  \/ \E c \in Chosen("5"), a1 \in CliThinIds : RunMarkTaskComplete(c, a1)
  \/ \E c \in Chosen("6"), a1 \in CliThinIds : RunMarkTaskIncomplete(c, a1)
  \/ \E c \in Chosen("0") : RunExit(c)
  \/ \E c \in Unknown : RunInvalidChoice(c)
  \/ \E a \in {Lit(<<>>), Eof} : RunPause(a)

SpecCli == Init /\ [][NextCli]_vars

(***************************************************************************)
(* SpecCliUpdate: tasks added and marked complete through the menu, and    *)
(* the update flow with all its answers.                                   *)
(***************************************************************************)
NextCliUpdate ==
  \/ CliAdd(MaxCliTasks, {Lit(<<" ", "a", " ">>)}, {Lit(<<"d">>)})
  \/ \E c \in Chosen("5"), a1 \in CliThinIds : RunMarkTaskComplete(c, a1)
  \/ \E c \in Chosen("3"), a1 \in CliUpdateIds, a2 \in CliNewTitles,
         a3 \in CliNewDescriptions : RunUpdateTask(c, a1, a2, a3)
  \/ \E a \in {Lit(<<>>), Eof} : RunPause(a)

SpecCliUpdate == Init /\ [][NextCliUpdate]_vars

(***************************************************************************)
(* Properties.                                                             *)
(***************************************************************************)
Present(ts, id) == \E i \in 1..Len(ts) : Id(ts[i]) = id
AddReturned(l) == l.op = "add" /\ l.ret = "Task"
Raised(l) == l.exc # "none"

\* C1: counting from a new registry, the n-th add that returns a task
\* returns the task with id n, whatever failed adds, updates, status
\* changes and deletes came in between.
C1_NthAddReturnsIdN == AddReturned(last) => last.task = adds

\* C1 case: the third add returned after two tasks had been deleted.
C1_Witness == AddReturned(last) /\ adds = 3 /\ Len(tasks) = 1

\* C2: next_id starts at 1, never decreases, is above every id assigned so
\* far, and an add never hands out an id that was assigned before.
C2_CounterAboveAssigned ==
  /\ next_id = 1
  /\ [][/\ next_id' >= next_id
        /\ \A i \in assigned' : i < next_id'
        /\ AddReturned(last') => last'.task \notin assigned]_vars

\* C2 case: a task was added after the task with the highest id was deleted.
C2_Witness ==
  /\ AddReturned(last) /\ last.task = 3
  /\ assigned = {1, 2, 3} /\ ~Present(tasks, 2)

\* C3: the ids of the tasks in the list are pairwise different, and each is
\* an integer above 0.
C3_IdsUniquePositive ==
  /\ \A i, j \in 1..Len(tasks) : i # j => Id(tasks[i]) # Id(tasks[j])
  /\ \A i \in 1..Len(tasks) : tasks[i].id.kind = "int" /\ tasks[i].id.n >= 1

\* C3 case: two tasks left of three added.
C3_Witness == Len(tasks) = 2 /\ adds = 3

\* C4: every task in the list has a string title of at most 200 characters
\* with at least one character left after trimming, a string description of
\* at most 1000 characters, and a boolean completed.
TaskValid(task) ==
  /\ task.title.kind = "str"
  /\ StrLen(Strip(task.title.s)) >= 1
  /\ StrLen(task.title.s) <= 200
  /\ task.description.kind = "str"
  /\ StrLen(task.description.s) <= 1000
  /\ task.completed.kind = "bool"

C4_TasksValid == \A i \in 1..Len(tasks) : TaskValid(tasks[i])

\* C4 case: a call was just rejected while the list holds a task at both
\* length limits.
C4_Witness ==
  /\ last.exc = "InvalidTaskInputError"
  /\ \E i \in 1..Len(tasks) :
       /\ StrLen(tasks[i].title.s) = 200
       /\ StrLen(tasks[i].description.s) = 1000
       /\ tasks[i].completed = PyBool(TRUE)

\* C5: an update that raises InvalidTaskInputError leaves the task list and
\* next_id exactly as they were.
C5_FailedUpdateChangesNothing ==
  [][(last'.op = "update" /\ last'.exc = "InvalidTaskInputError")
       => (tasks' = tasks /\ next_id' = next_id)]_vars

\* C6: an add that raises leaves the task list and next_id as they were, so
\* an add made next returns what it would have returned without it.
C6_FailedAddChangesNothing ==
  [][(last'.op = "add" /\ Raised(last'))
       => /\ tasks' = tasks
          /\ next_id' = next_id
          /\ AddTaskR(tasks', next_id', Padded, Blank)
               = AddTaskR(tasks, next_id, Padded, Blank)]_vars

\* C6 case: an add was rejected by a registry that holds a task.
C6_Witness == last.op = "add" /\ Raised(last) /\ Len(tasks) >= 1

C8_NonBoolStatusRaises ==
  [][\A id \in IdInputs(MaxTasks) \ {0} :
       UpdateTaskStatus(id, NotABool) => last'.exc = "InvalidTaskInputError"]_vars

\* C9: deleting an id the list holds returns True and removes that one
\* task: the list is one shorter, the other tasks are as they were and in
\* the same order, and next_id is unchanged.
C9_DeleteRemovesExactlyOne ==
  [][(last'.op = "delete" /\ Present(tasks, last'.id))
       => /\ last'.ret = "True" /\ ~Raised(last')
          /\ Len(tasks') = Len(tasks) - 1
          /\ tasks' = SelectSeq(tasks, LAMBDA task : Id(task) # last'.id)
          /\ next_id' = next_id]_vars

\* C9 case: the middle one of three tasks was deleted.
C9_Witness ==
  /\ last.op = "delete" /\ last.ret = "True" /\ last.id = 2
  /\ Refs(tasks) = <<1, 3>>

\* C10: whatever a caller does to the list get_all_tasks returned, the
\* service's list and next_id stay as they were, and get_all_tasks returns
\* afterwards what it would have returned before.
C10_ReturnedListIsACopy ==
  [][last'.op = "caller"
       => /\ tasks' = tasks /\ next_id' = next_id
          /\ GetAllTasksR(tasks').items = GetAllTasksR(tasks).items]_vars

\* C10 case: the caller changed its list, which now differs from the
\* service's.
C10_Witness ==
  /\ last.op = "caller" /\ Len(tasks) >= 1
  /\ CallerList # Refs(tasks)

\* C11: get_all_tasks returns the tasks added and not deleted since, in the
\* order they were added, so the ids in the list it returns increase.
C11_ListIsLiveInAddOrder ==
  LET l == Refs(GetAllTasksR(tasks).items) IN
    /\ l = live
    /\ \A i, j \in 1..Len(l) : i < j => l[i] < l[j]

\* C11 case: three tasks added, the first deleted before the third add.
C11_Witness == AddReturned(last) /\ last.task = 3 /\ live = <<2, 3>>

\* What the claims call a rejected title (empty, whitespace only, or longer
\* than 200 characters) and a rejected description (longer than 1000).
TitleRejected(t) ==
  \/ StrLen(t.s) = 0
  \/ \A i \in 1..Len(t.s) : t.s[i].c \in Whitespace
  \/ StrLen(t.s) > 200
DescriptionRejected(d) == StrLen(d.s) > 1000

\* C12: an add that returns a task appends exactly that task to the list:
\* its id is next_id as it was, its title and description are the
\* arguments (the description "" when none is given), completed is False;
\* the tasks held before are unchanged and next_id is one more.
C12_AddAppendsTheNewTask ==
  /\ \A t \in Titles, d \in Descriptions :
       LET r == AddTaskR(tasks, next_id, t, d) IN
         r.ret = "Task" =>
           /\ r.tasks = Append(tasks, [id |-> PyInt(next_id), title |-> t,
                                       description |-> d,
                                       completed |-> PyBool(FALSE)])
           /\ r.task = next_id
           /\ r.next_id = next_id + 1
  /\ \A t \in Titles :
       LET r == AddTaskR1(tasks, next_id, t) IN
         r.ret = "Task" =>
           /\ r.tasks = Append(tasks, [id |-> PyInt(next_id), title |-> t,
                                       description |-> PyStr(<<>>),
                                       completed |-> PyBool(FALSE)])
           /\ r.task = next_id
           /\ r.next_id = next_id + 1

\* C12 case: the second add returned, with a padded title and a description
\* of 1000 characters, and the new task is the last of the list.
C12_Witness ==
  /\ AddReturned(last) /\ last.task = 2 /\ Len(tasks) = 2
  /\ tasks[2].title = Padded /\ tasks[2].description = Desc1000

\* C13: with strings as arguments, add raises InvalidTaskInputError exactly
\* when the title or the description is a rejected one, and returns a task
\* otherwise; no other exception leaves it.
C13_AddRaisesExactlyOnBadInput ==
  \A t \in Titles, d \in Descriptions :
    LET r == AddTaskR(tasks, next_id, t, d) IN
      IF TitleRejected(t) \/ DescriptionRejected(d)
      THEN r.exc = "InvalidTaskInputError" /\ r.ret = "-"
      ELSE r.exc = "none" /\ r.ret = "Task"

\* C13 case: an add was rejected after another one had returned a task.
C13_Witness ==
  /\ last.op = "add" /\ last.exc = "InvalidTaskInputError"
  /\ adds = 1 /\ Len(tasks) = 1 /\ StrLen(tasks[1].title.s) = 200

\* C14: an update of a held id whose provided title and description are
\* acceptable returns True and sets the provided fields to the arguments; a
\* field not provided keeps its value, and with neither provided nothing
\* changes.
C14_UpdateSetsProvidedFields ==
  \A i \in 1..Len(tasks) :
    \A t \in {x \in Titles : ~TitleRejected(x)} \cup {PyNone},
       d \in {x \in Descriptions : ~DescriptionRejected(x)} \cup {PyNone} :
      LET r == UpdateTaskR(tasks, next_id, Id(tasks[i]), t, d) IN
        /\ r.ret = "True" /\ r.exc = "none" /\ r.next_id = next_id
        /\ r.tasks = [tasks EXCEPT ![i] =
             [id |-> tasks[i].id,
              title |-> IF t = PyNone THEN tasks[i].title ELSE t,
              description |-> IF d = PyNone THEN tasks[i].description ELSE d,
              completed |-> tasks[i].completed]]
        /\ (t = PyNone /\ d = PyNone) => r.tasks = tasks

\* C14 case: an update returned True on a task that is completed and now
\* has the padded title and the empty description.
C14_Witness ==
  /\ last.op = "update" /\ last.ret = "True"
  /\ \E i \in 1..Len(tasks) :
       /\ Id(tasks[i]) = last.id /\ tasks[i].title = Padded
       /\ tasks[i].description = Blank /\ tasks[i].completed = PyBool(TRUE)

\* C15: an update of a held id with a rejected title raises
\* InvalidTaskInputError and leaves the task's description as it was,
\* whatever description is passed along.
C15_TitleBeforeDescription ==
  \A i \in 1..Len(tasks) :
    \A t \in {x \in Titles : TitleRejected(x)},
       d \in Descriptions \cup {PyNone} :
      LET r == UpdateTaskR(tasks, next_id, Id(tasks[i]), t, d) IN
        /\ r.exc = "InvalidTaskInputError"
        /\ Len(r.tasks) = Len(tasks)
        /\ r.tasks[i].description = tasks[i].description

\* C15 case: an update raised on a task that holds a description of 1000
\* characters.
C15_Witness ==
  /\ last.op = "update" /\ last.exc = "InvalidTaskInputError"
  /\ \E i \in 1..Len(tasks) :
       Id(tasks[i]) = last.id /\ tasks[i].description = Desc1000

\* C16: update_task_status of a held id with a boolean returns True and
\* leaves completed at that boolean, so that repeating the call changes
\* nothing more and True followed by False leaves False; with a value that
\* is no boolean it raises InvalidTaskInputError and completed stays.
C16_StatusSetsCompleted ==
  \A i \in 1..Len(tasks) :
    LET id == Id(tasks[i]) IN
      /\ \A b \in BOOLEAN :
           LET r == UpdateTaskStatusR(tasks, next_id, id, PyBool(b))
               again == UpdateTaskStatusR(r.tasks, r.next_id, id, PyBool(b))
           IN /\ r.ret = "True" /\ r.exc = "none"
              /\ r.tasks[i].completed = PyBool(b)
              /\ again.ret = "True" /\ again.tasks = r.tasks
      /\ LET on == UpdateTaskStatusR(tasks, next_id, id, PyBool(TRUE))
             off == UpdateTaskStatusR(on.tasks, on.next_id, id, PyBool(FALSE))
         IN off.ret = "True" /\ off.tasks[i].completed = PyBool(FALSE)
      /\ LET r == UpdateTaskStatusR(tasks, next_id, id, NotABool) IN
           /\ r.exc = "InvalidTaskInputError"
           /\ Len(r.tasks) = Len(tasks)
           /\ r.tasks[i].completed = tasks[i].completed

\* C16 case: a status change returned True on a task that is now completed.
C16_Witness ==
  /\ last.op = "status" /\ last.ret = "True"
  /\ \E i \in 1..Len(tasks) :
       Id(tasks[i]) = last.id /\ tasks[i].completed = PyBool(TRUE)

\* C17: an update or a status change, whatever its outcome, leaves next_id,
\* the length and order of the list, every id and every task other than
\* the one addressed as they were; an update leaves completed and a status
\* change leaves title and description.  The ids of the tasks held stay in
\* place under every operation but for the one appended or removed.
C17_UpdateAndStatusFrame ==
  [][/\ last'.op \in {"update", "status"} =>
          /\ next_id' = next_id
          /\ Refs(tasks') = Refs(tasks)
          /\ \A i \in 1..Len(tasks) :
               /\ tasks'[i].id = tasks[i].id
               /\ Id(tasks[i]) # last'.id => tasks'[i] = tasks[i]
               /\ last'.op = "update" =>
                    tasks'[i].completed = tasks[i].completed
               /\ last'.op = "status" =>
                    /\ tasks'[i].title = tasks[i].title
                    /\ tasks'[i].description = tasks[i].description
     /\ last'.op = "get" => Refs(tasks') = Refs(tasks)
     /\ last'.op = "add" =>
          SubSeq(Refs(tasks'), 1, Len(tasks)) = Refs(tasks)
     /\ last'.op = "delete" =>
          Refs(tasks') = SelectSeq(Refs(tasks), LAMBDA k : k # last'.id)]_vars

\* C17 case: an update raised while two tasks are held, the other one
\* completed.
C17_Witness ==
  /\ last.op = "update" /\ Raised(last) /\ Len(tasks) = 2
  /\ \E i \in 1..2 : Id(tasks[i]) # last.id /\ tasks[i].completed = PyBool(TRUE)

\* What the claims call a positive integer: an int above 0, where Python's
\* True is the int 1 (bool is a subtype of int); and values of any type
\* that are rejected as title, description and completed.
IsPositiveInteger(v) == (v.kind = "int" /\ v.n >= 1) \/ v = PyBool(TRUE)
TitleRejectedAny(v) == v.kind # "str" \/ TitleRejected(v)
DescriptionRejectedAny(v) == v.kind # "str" \/ DescriptionRejected(v)
CompletedRejectedAny(v) == v.kind # "bool"

\* C18: Task(...) raises ValueError exactly when the id is no positive
\* integer, the title is empty, whitespace only or longer than 200, the
\* description is longer than 1000, or completed is no boolean (a title of
\* 200 and a description of 1000 characters pass); otherwise the task holds
\* the arguments, with "" and False for a description and a completed that
\* were not passed.
C18_ConstructorValidates ==
  tcall.op = "init" =>
    LET bad == \/ ~IsPositiveInteger(tcall.id)
               \/ TitleRejectedAny(tcall.title)
               \/ (tcall.description # Absent
                     /\ DescriptionRejectedAny(tcall.description))
               \/ (tcall.completed # Absent
                     /\ CompletedRejectedAny(tcall.completed))
    IN IF bad
       THEN tcall.exc = "ValueError" /\ obj = PyNone
       ELSE /\ tcall.exc = "none"
            /\ obj = [id |-> tcall.id, title |-> tcall.title,
                      description |-> IF tcall.description = Absent
                                      THEN PyStr(<<>>) ELSE tcall.description,
                      completed |-> IF tcall.completed = Absent
                                    THEN PyBool(FALSE) ELSE tcall.completed]

\* C18 case: a task constructed from a title of 200 characters alone.
C18_Witness ==
  /\ tcall.op = "init" /\ tcall.exc = "none"
  /\ StrLen(tcall.title.s) = 200
  /\ tcall.description = Absent /\ tcall.completed = Absent
  /\ obj.description = PyStr(<<>>) /\ obj.completed = PyBool(FALSE)

\* C19: an assignment to title, description or completed of a task is
\* accepted exactly when the constructor accepts the value for that field;
\* an accepted one changes that field alone, a rejected one raises
\* ValueError and leaves the whole task as it was.
C19_SettersValidateLikeConstructor ==
  [][/\ tcall'.op = "set_title" =>
          LET v == tcall'.title IN
            /\ (tcall'.exc = "none")
                 <=> (TaskNew(PyInt(1), v, Absent, Absent).exc = "none")
            /\ IF tcall'.exc = "none" THEN obj' = [obj EXCEPT !.title = v]
               ELSE tcall'.exc = "ValueError" /\ obj' = obj
     /\ tcall'.op = "set_description" =>
          LET v == tcall'.description IN
            /\ (tcall'.exc = "none")
                 <=> (TaskNew(PyInt(1), Padded, v, Absent).exc = "none")
            /\ IF tcall'.exc = "none" THEN obj' = [obj EXCEPT !.description = v]
               ELSE tcall'.exc = "ValueError" /\ obj' = obj
     /\ tcall'.op = "set_completed" =>
          LET v == tcall'.completed IN
            /\ (tcall'.exc = "none")
                 <=> (TaskNew(PyInt(1), Padded, Absent, v).exc = "none")
            /\ IF tcall'.exc = "none" THEN obj' = [obj EXCEPT !.completed = v]
               ELSE tcall'.exc = "ValueError" /\ obj' = obj]_vars

\* C19 case: a title of 201 characters was refused by a completed task that
\* holds a description of 1000 characters.
C19_Witness ==
  /\ tcall.op = "set_title" /\ tcall.exc = "ValueError"
  /\ StrLen(tcall.title.s) = 201
  /\ obj # PyNone /\ obj.description = Desc1000 /\ obj.completed = PyBool(TRUE)

\* C20: to_dict gives a dict with the keys id, title, description and
\* completed and no other, and from_dict of the dict to_dict just gave
\* succeeds with a task equal to the original in all four fields.
C20_DictRoundTrip ==
  [][/\ tcall'.op = "to_dict" =>
          /\ Len(data') = 4
          /\ DictKeys(data') = {"id", "title", "description", "completed"}
     /\ (tcall.op = "to_dict" /\ tcall'.op = "from_dict") =>
          /\ tcall'.exc = "none"
          /\ obj' # PyNone
          /\ obj'.id = obj.id /\ obj'.title = obj.title
          /\ obj'.description = obj.description
          /\ obj'.completed = obj.completed]_vars

\* C20 case: a completed task with a description of 1000 characters came
\* back from from_dict.
C20_Witness ==
  /\ tcall.op = "from_dict" /\ tcall.exc = "none"
  /\ obj # PyNone /\ obj.completed = PyBool(TRUE) /\ obj.description = Desc1000
  /\ DictGet(data, "completed") = PyBool(TRUE)

\* C21: from_dict of a dict that has id and title raises ValueError exactly
\* when the id is no positive integer, the title is invalid, or a
\* description or completed present in the dict is invalid; otherwise it
\* builds the task of the values present, with "" for a missing description
\* and False for a missing completed.
C21_FromDictDefaultsAndValidates ==
  (tcall.op = "from_dict" /\ DictHas(data, "id") /\ DictHas(data, "title")) =>
    LET hasD == DictHas(data, "description")
        hasC == DictHas(data, "completed")
        bad == \/ ~IsPositiveInteger(DictGet(data, "id"))
               \/ TitleRejectedAny(DictGet(data, "title"))
               \/ hasD /\ DescriptionRejectedAny(DictGet(data, "description"))
               \/ hasC /\ CompletedRejectedAny(DictGet(data, "completed"))
    IN IF bad
       THEN tcall.exc = "ValueError" /\ obj = PyNone
       ELSE /\ tcall.exc = "none"
            /\ obj = [id |-> DictGet(data, "id"),
                      title |-> DictGet(data, "title"),
                      description |-> IF hasD THEN DictGet(data, "description")
                                      ELSE PyStr(<<>>),
                      completed |-> IF hasC THEN DictGet(data, "completed")
                                    ELSE PyBool(FALSE)]

\* C21 case: a task built from a dict that holds id and title only.
C21_Witness ==
  /\ tcall.op = "from_dict" /\ tcall.exc = "none"
  /\ DictKeys(data) = {"id", "title"}
  /\ obj # PyNone
  /\ obj.description = PyStr(<<>>) /\ obj.completed = PyBool(FALSE)

\* C22: a caller's assignment to a field of a task that add, get or the
\* list of get_all_tasks handed out acts on the task in the registry: a
\* value the field accepts is stored in that task, any other value (and any
\* assignment to id) raises and changes nothing; in either case every task
\* of the registry is valid afterwards, the ids are the same, in the same
\* order and pairwise different, and next_id is unchanged.
FieldAccepts(f, v) ==
  CASE f = "title" -> ~TitleRejectedAny(v)
    [] f = "description" -> ~DescriptionRejectedAny(v)
    [] f = "completed" -> ~CompletedRejectedAny(v)
    [] f = "id" -> FALSE

C22_DirectAssignmentIsValidated ==
  [][last'.op = "assign" =>
       LET ref == last'.id
           f == last'.field
           v == last'.value
       IN
         /\ next_id' = next_id
         /\ Refs(tasks') = Refs(tasks)
         /\ \A i, j \in 1..Len(tasks') : i # j => Id(tasks'[i]) # Id(tasks'[j])
         /\ \A i \in 1..Len(tasks') : TaskValid(tasks'[i])
         /\ (last'.exc = "none") <=> FieldAccepts(f, v)
         /\ \A i \in 1..Len(tasks) :
              tasks'[i] = IF Id(tasks[i]) = ref /\ FieldAccepts(f, v)
                          THEN [tasks[i] EXCEPT ![f] = v] ELSE tasks[i]]_vars

\* C22 case: an assignment was refused on a task taken from the returned
\* list, after an earlier direct assignment gave that task in the registry
\* a title of 200 characters.
C22_Witness ==
  /\ last.op = "assign" /\ last.exc = "ValueError"
  /\ held /\ \E k \in 1..Len(ret) : ret[k] = last.id
  /\ \E i \in 1..Len(tasks) :
       Id(tasks[i]) = last.id /\ tasks[i].title = Title200

\* C23: add and update of a held id reject with InvalidTaskInputError, and
\* without any change, every title of more than 200 characters as given,
\* also one that has at most 200 characters once trimmed; and when an add
\* returns a task or an update returns True, the title stored is the
\* argument itself, surrounding whitespace included.
C23_TitleUntrimmedLimitRaw ==
  /\ \E t \in Titles : StrLen(t.s) > 200 /\ StrLen(Strip(t.s)) <= 200
  /\ \A t \in Titles :
       /\ LET r == AddTaskR(tasks, next_id, t, Blank) IN
            /\ StrLen(t.s) > 200 =>
                 r.exc = "InvalidTaskInputError" /\ r.tasks = tasks
            /\ r.ret = "Task" =>
                 /\ r.tasks[Len(r.tasks)].title = t
                 /\ StrLen(r.tasks[Len(r.tasks)].title.s) = StrLen(t.s)
       /\ \A i \in 1..Len(tasks) :
            LET r == UpdateTaskR(tasks, next_id, Id(tasks[i]), t, PyNone) IN
              /\ StrLen(t.s) > 200 =>
                   r.exc = "InvalidTaskInputError" /\ r.tasks = tasks
              /\ r.ret = "True" =>
                   /\ r.tasks[i].title = t
                   /\ StrLen(r.tasks[i].title.s) = StrLen(t.s)

\* C23 case: an update returned True and left the padded title, blanks
\* included, in a task, in a state where the title of 201 characters that
\* trims to 200 is refused by add and by update of that task.
C23_Witness ==
  /\ last.op = "update" /\ last.ret = "True"
  /\ StrLen(Title201.s) = 201 /\ StrLen(Strip(Title201.s)) = 200
  /\ \E i \in 1..Len(tasks) :
       /\ Id(tasks[i]) = last.id
       /\ tasks[i].title = Padded /\ StrLen(tasks[i].title.s) = 3
       /\ UpdateTaskR(tasks, next_id, last.id, Title201, PyNone).exc
            = "InvalidTaskInputError"
  /\ AddTaskR(tasks, next_id, Title201, Blank).exc = "InvalidTaskInputError"

\* C24: a turn of the menu loop that takes choice "4" removes a task exactly
\* when the id typed is numeric, the registry holds a task with that id,
\* and the confirmation typed is "y" or "yes" once trimmed and lower-cased:
\* then that task alone is removed; in every other case (an id that is no
\* number, no task with the id, any other confirmation, or input ending at
\* a prompt) the task list and next_id are as they were.
TypedNumber(a) == ~InputRaises(a) /\ ValidateNumericInput(SanitizeInput(a))
TypedYes(a) ==
  /\ ~InputRaises(a)
  /\ Lower(Strip(a.s)) \in {<<[c |-> "y", n |-> 1]>>,
                             <<[c |-> "y", n |-> 1], [c |-> "e", n |-> 1],
                               [c |-> "s", n |-> 1]>>}

C24_DeleteOnlyWhenConfirmed ==
  [][(cli.pc = "menu" /\ cli'.pc # "menu" /\ cli'.choice = Lit(<<"4">>)) =>
       LET a == cli'.answers IN
         /\ next_id' = next_id
         /\ IF /\ Len(a) = 2 /\ TypedNumber(a[1]) /\ TypedYes(a[2])
               /\ Present(tasks, IntValue(a[1].s))
            THEN /\ Len(tasks') = Len(tasks) - 1
                 /\ ~Present(tasks', IntValue(a[1].s))
                 /\ \A i \in 1..Len(tasks) :
                      Id(tasks[i]) # IntValue(a[1].s) =>
                        \E j \in 1..Len(tasks') : tasks'[j] = tasks[i]
            ELSE tasks' = tasks]_vars

\* C24 case: the delete flow found task 2 and was answered "ye": the
\* deletion was cancelled and both tasks are still held.
C24_Witness ==
  /\ cli.choice = Lit(<<"4">>) /\ cli.out = "Cancelled"
  /\ cli.answers = <<Lit(<<" ", "2", " ">>), Lit(<<"y", "e">>)>>
  /\ Len(tasks) = 2 /\ Present(tasks, 2)

\* C25: the menu loop ends exactly in the turn whose choice read is "0",
\* and then without reading anything after the choice; end of input or an
\* interrupt at the menu prompt counts as the choice "0"; after any other
\* choice the loop waits at its pause prompt and from there shows the menu
\* again; a choice that is none of "0".."6" leaves the registry as it was.
LoopEnded(c) == c.pc \in {"exited", "crashed"}

C25_LoopEndsExactlyOnChoiceZero ==
  [][/\ GetUserChoice(Eof) = Lit(<<"0">>)
     /\ GetUserChoice(Interrupt) = Lit(<<"0">>)
     /\ (~LoopEnded(cli) /\ LoopEnded(cli'))
          <=> (cli.pc = "menu" /\ cli'.choice = Lit(<<"0">>))
     /\ (cli.pc = "menu" /\ cli'.choice = Lit(<<"0">>))
          => /\ cli'.pc = "exited" /\ cli'.answers = <<>>
             /\ tasks' = tasks /\ next_id' = next_id
     /\ (cli.pc = "menu" /\ cli'.choice # Lit(<<"0">>)) => cli'.pc = "pause"
     /\ cli.pc = "pause" => cli'.pc = "menu"
     /\ (cli.pc = "menu" /\ cli'.choice \notin MenuChoices)
          => tasks' = tasks /\ next_id' = next_id
     /\ ~LoopEnded(cli)]_vars

\* C26: a turn of the menu loop that takes choice "3" leaves the ids, the
\* completed flags and next_id as they were and turns no description that
\* is not empty into the empty one; and when it calls update_task, a title
\* (description) answer that is blank, or that is the task's title
\* (description) once trimmed, is passed as None and that field of the
\* task keeps its value.
TypedBlank(a) == Strip(a.s) = <<>>

C26_BlankAnswerKeepsField ==
  [][(cli.pc = "menu" /\ cli'.pc # "menu" /\ cli'.choice = Lit(<<"3">>)) =>
       LET a == cli'.answers IN
         /\ next_id' = next_id
         /\ Len(tasks') = Len(tasks)
         /\ \A i \in 1..Len(tasks) :
              /\ tasks'[i].id = tasks[i].id
              /\ tasks'[i].completed = tasks[i].completed
              /\ StrLen(tasks[i].description.s) > 0
                   => StrLen(tasks'[i].description.s) > 0
         /\ cli'.passed # <<>> =>
              \E i \in 1..Len(tasks) :
                /\ Id(tasks[i]) = IntValue(a[1].s)
                /\ (TypedBlank(a[2]) \/ PyStr(Strip(a[2].s)) = tasks[i].title)
                     => /\ cli'.passed[1] = PyNone
                        /\ tasks'[i].title = tasks[i].title
                /\ (TypedBlank(a[3]) \/ PyStr(Strip(a[3].s)) = tasks[i].description)
                     => /\ cli'.passed[2] = PyNone
                        /\ tasks'[i].description = tasks[i].description]_vars

\* C26 case: the update flow on the completed task 1 was answered a new
\* title and a blank description: the title changed, the description "d"
\* and the completed flag are still there.
C26_Witness ==
  /\ cli.choice = Lit(<<"3">>) /\ cli.out = "Updated"
  /\ cli.answers = <<Lit(<<"1">>), Lit(<<"b">>), Lit(<<" ">>)>>
  /\ cli.passed = <<Lit(<<"b">>), PyNone>>
  /\ \E i \in 1..Len(tasks) :
       /\ Id(tasks[i]) = 1 /\ tasks[i].title = Lit(<<"b">>)
       /\ tasks[i].description = Lit(<<"d">>)
       /\ tasks[i].completed = PyBool(TRUE)

====
